---- MODULE Spec2Model ----
(***************************************************************************)
(* Model of assets/python_processor/image_processor.py: one invocation of  *)
(* the sidecar, from main() through process_image() to sys.exit().         *)
(*                                                                         *)
(* The run is sequential.  Every statement that can raise is the end of    *)
(* one action; the action contains the matching except clause, the record  *)
(* it prints and the exit code main() hands to sys.exit().  What the       *)
(* imaging library and the filesystem decide (does the file decode, how    *)
(* large is it, how wide is the rendered text, which font loads, does the  *)
(* write succeed) is a nondeterministic choice.                            *)
(***************************************************************************)
EXTENDS Integers, Sequences, FiniteSets

VARIABLES pc, argc, pathKind, outDirExists, log, exitCode, width, height,
          font, font_size, text_width, text_height, x, y, shadow_offset,
          offset_x, offset_y, draws, outWrites

vars == <<pc, argc, pathKind, outDirExists, log, exitCode, width, height,
          font, font_size, text_width, text_height, x, y, shadow_offset,
          offset_x, offset_y, draws, outWrites>>

(***************************************************************************)
(* Bounds of the explored inputs.                                          *)
(***************************************************************************)
MaxArgs == 3
MaxWidth == 3
MaxHeight == 21
MaxBigHeight == 3
MaxTextWidth == 2
MaxTextHeight == 2

\* number of command-line arguments after the program name
ArgCounts == 0..MaxArgs

\* what the input path names on disk
PathKinds == {"absent", "file", "dir"}

Widths == 1..MaxWidth

\* small heights (font sizes 0 and 1) and heights just below, at and above
\* the multiples of 600, where font_size // 30 grows past the minimum
\* shadow radius
Heights == (1..MaxHeight) \cup { 600 * k + d : k \in 1..MaxBigHeight, d \in {-1, 0, 15} }

TextWidths == 0..MaxTextWidth
TextHeights == 1..MaxTextHeight

Fonts == {"arial.ttf", "Arial.ttf", "default"}

Max(a, b) == IF a >= b THEN a ELSE b

(***************************************************************************)
(* Records.  One shape for everything the run does that is visible from    *)
(* outside: lines on the two streams, filesystem calls, filter calls.      *)
(***************************************************************************)
Rec(kind, status, message, error_type, w, h) ==
    [kind |-> kind, status |-> status, message |-> message,
     error_type |-> error_type, w |-> w, h |-> h]

Out(status, message, w, h) == Rec("stdout", status, message, "", w, h)

Op(kind, name) == Rec(kind, name, "", "", 0, 0)

LoadingRec == Out("loading", "Loading image...", 0, 0)

InfoRec(w, h) == Out("info", "Image loaded: WxH pixels", w, h)

FiltersRec == Out("processing", "Applying filters...", 0, 0)

OverlayRec == Out("processing", "Adding text overlay...", 0, 0)

SavingRec == Out("saving", "Saving processed image...", 0, 0)

SuccessRecSwapped(w, h) == Out("success", "Image processed successfully", h, w)

SuccessRec(w, h) == Out("success", "Image processed successfully", w, h)

ErrorRec(error_type) == Rec("stderr", "error", "", error_type, 0, 0)

(***************************************************************************)
(* The two except clauses of process_image and the sys.exit of main.       *)
(***************************************************************************)
ExitForAlwaysTwo(exc) == 2

ExitFor(exc) == IF exc = "FileNotFoundError" THEN 1 ELSE 2

\* the exception exc leaves the try block after the records in lg
Fail(lg, exc) ==
    /\ log' = Append(lg, ErrorRec(exc))
    /\ exitCode' = ExitFor(exc)
    /\ pc' = "exited"

(***************************************************************************)
(* What the library calls can raise.                                       *)
(***************************************************************************)
\* Image.open(input_path)
OpenErrors(kind) ==
    CASE kind = "absent" -> {"FileNotFoundError"}
      [] kind = "dir"    -> {"IsADirectoryError", "PermissionError"}
      [] OTHER           -> {"UnidentifiedImageError", "PermissionError"}

\* Image.open succeeds only on a file
CanOpen(kind) == kind = "file"

\* the enhancers and kernel filters (they force the lazy decode)
FilterErrors == {"OSError", "ValueError"}

\* ImageDraw.Draw, textbbox, draw.text
DrawErrors == {"TypeError", "ValueError"}

\* img.save(output_path, quality=95)
SaveErrors(dirExists) ==
    IF dirExists THEN {"ValueError", "OSError"} ELSE {"FileNotFoundError"}

\* os.path.getsize(output_path)
GetsizeErrors == {"OSError"}

Init ==
    /\ pc = "main"
    /\ argc \in ArgCounts
    /\ pathKind \in PathKinds
    /\ outDirExists \in BOOLEAN
    /\ log = <<>>
    /\ exitCode = -1
    /\ width = 0
    /\ height = 0
    /\ font = "none"
    /\ font_size = 0
    /\ text_width = 0
    /\ text_height = 0
    /\ x = 0
    /\ y = 0
    /\ shadow_offset = 0
    /\ offset_x = 0
    /\ offset_y = 0
    /\ draws = <<>>
    /\ outWrites = 0

imgVars == <<width, height>>
textVars == <<font, font_size, text_width, text_height, x, y, shadow_offset>>
loopVars == <<offset_x, offset_y, draws>>
inputVars == <<argc, pathKind, outDirExists>>

\* len(sys.argv) != 3
ArgsOkAtLeast(n) == n + 1 >= 3

ArgsOk(n) == n + 1 = 3

main ==
    /\ pc = "main"
    /\ IF ~ArgsOk(argc)
         THEN /\ log' = Append(log, ErrorRec("InvalidArguments"))
              /\ exitCode' = 1
              /\ pc' = "exited"
         ELSE /\ pc' = "validate"
              /\ UNCHANGED <<log, exitCode>>
    /\ UNCHANGED <<inputVars, imgVars, textVars, loopVars, outWrites>>

\* os.path.exists(input_path)
PathExistsAlways(kind) == TRUE

PathIsFile(kind) == kind = "file"

PathExists(kind) == kind # "absent"

Validate ==
    /\ pc = "validate"
    /\ LET lg == Append(log, Op("fs", "exists"))
       IN  IF ~PathExists(pathKind)
             THEN Fail(lg, "FileNotFoundError")
             ELSE /\ log' = lg
                  /\ pc' = "load"
                  /\ UNCHANGED exitCode
    /\ UNCHANGED <<inputVars, imgVars, textVars, loopVars, outWrites>>

Load ==
    /\ pc = "load"
    /\ LET lg == log \o <<LoadingRec, Op("fs", "open")>>
       IN  \/ /\ \E exc \in OpenErrors(pathKind) : Fail(lg, exc)
              /\ UNCHANGED imgVars
           \/ /\ CanOpen(pathKind)
              /\ \E w \in Widths, h \in Heights :
                    /\ width' = w
                    /\ height' = h
                    /\ log' = Append(lg, InfoRec(w, h))
              /\ pc' = "sharpness"
              /\ UNCHANGED exitCode
    /\ UNCHANGED <<inputVars, textVars, loopVars, outWrites>>

\* one enhancer or kernel filter; prefix is what is printed just before it
FilterStage(here, next, prefix, name) ==
    /\ pc = here
    /\ LET lg == (log \o prefix) \o <<Op("filter", name)>>
       IN  \/ \E exc \in FilterErrors : Fail(lg, exc)
           \/ /\ log' = lg
              /\ pc' = next
              /\ UNCHANGED exitCode
    /\ UNCHANGED <<inputVars, imgVars, textVars, loopVars, outWrites>>

SharpnessUnannounced == FilterStage("sharpness", "edge", <<>>, "Sharpness 1.5")

Sharpness == FilterStage("sharpness", "edge", <<FiltersRec>>, "Sharpness 1.5")

EdgeEnhance == FilterStage("edge", "contrast", <<>>, "EDGE_ENHANCE")

Contrast == FilterStage("contrast", "smooth", <<>>, "Contrast 1.2")

\* a failure that is reported but does not leave the try block
SmoothReportsAndContinues ==
    /\ pc = "smooth"
    /\ LET lg == Append(log, Op("filter", "SMOOTH"))
       IN  \/ \E exc \in FilterErrors : log' = Append(lg, ErrorRec(exc))
           \/ log' = lg
    /\ pc' = "overlay"
    /\ UNCHANGED <<exitCode, inputVars, imgVars, textVars, loopVars, outWrites>>

Smooth == FilterStage("smooth", "overlay", <<>>, "SMOOTH")

\* int(height * 0.05).  0.05 is the double just above 1/20, so the product is
\* never below the exact h/20 and never reaches the next integer early:
\* truncation gives the floor of h/20.
FontSizeRounded(h) == (h * 5 + 50) \div 100

FontSize(h) == (h * 5) \div 100

\* max(2, font_size // 30)
ShadowOffset(fs) == Max(2, fs \div 30)

\* (size - text) // 2 : Python's floor division, also below zero
CenterTruncated(size, text) ==
    IF size >= text THEN (size - text) \div 2 ELSE 0 - ((text - size) \div 2)

Center(size, text) == (size - text) \div 2

Overlay ==
    /\ pc = "overlay"
    /\ LET lg == Append(log, OverlayRec)
       IN  \/ /\ \E exc \in DrawErrors : Fail(lg, exc)
              /\ UNCHANGED <<textVars, offset_x, offset_y>>
           \/ /\ log' = lg
              /\ font_size' = FontSize(height)
              /\ font' \in Fonts
              /\ \E tw \in TextWidths, th \in TextHeights :
                    /\ text_width' = tw
                    /\ text_height' = th
                    /\ x' = Center(width, tw)
                    /\ y' = Center(height, th)
              /\ shadow_offset' = ShadowOffset(FontSize(height))
              /\ offset_x' = 0 - ShadowOffset(FontSize(height))
              /\ offset_y' = 0 - ShadowOffset(FontSize(height))
              /\ pc' = "shadow"
              /\ UNCHANGED exitCode
    /\ UNCHANGED <<inputVars, imgVars, draws, outWrites>>

Black == <<0, 0, 0, 255>>

Cyan == <<200, 230, 255, 255>>

DrawRec(px, py, fill) == [x |-> px, y |-> py, fill |-> fill]

\* if offset_x != 0 or offset_y != 0
DrawsShadowAlways(ox, oy) == TRUE

DrawsShadow(ox, oy) == ox # 0 \/ oy # 0

\* one iteration of the inner loop over offset_y, with the step of the
\* outer loop over offset_x when the inner range is exhausted
ShadowStep ==
    /\ pc = "shadow"
    /\ \/ /\ DrawsShadow(offset_x, offset_y)
          /\ \E exc \in DrawErrors : Fail(log, exc)
          /\ UNCHANGED loopVars
       \/ /\ draws' = IF DrawsShadow(offset_x, offset_y)
                        THEN Append(draws, DrawRec(x + offset_x, y + offset_y, Black))
                        ELSE draws
          /\ IF offset_y < shadow_offset
               THEN /\ offset_y' = offset_y + 1
                    /\ UNCHANGED <<offset_x, pc>>
               ELSE IF offset_x < shadow_offset
                      THEN /\ offset_x' = offset_x + 1
                           /\ offset_y' = 0 - shadow_offset
                           /\ UNCHANGED pc
                      ELSE /\ pc' = "maintext"
                           /\ UNCHANGED <<offset_x, offset_y>>
          /\ UNCHANGED <<log, exitCode>>
    /\ UNCHANGED <<inputVars, imgVars, textVars, outWrites>>

MainText ==
    /\ pc = "maintext"
    /\ \/ /\ \E exc \in DrawErrors : Fail(log, exc)
          /\ UNCHANGED draws
       \/ /\ draws' = Append(draws, DrawRec(x, y, Cyan))
          /\ pc' = "save"
          /\ UNCHANGED <<log, exitCode>>
    /\ UNCHANGED <<inputVars, imgVars, textVars, offset_x, offset_y, outWrites>>

Save ==
    /\ pc = "save"
    /\ LET lg == log \o <<SavingRec, Op("fs", "save")>>
       IN  \/ /\ \E exc \in SaveErrors(outDirExists) : Fail(lg, exc)
              \* a failed write may leave a partial file behind
              /\ outWrites' \in (IF outDirExists THEN {outWrites, outWrites + 1}
                                                 ELSE {outWrites})
           \/ /\ outDirExists
              /\ log' = lg
              /\ outWrites' = outWrites + 1
              /\ pc' = "finish"
              /\ UNCHANGED exitCode
    /\ UNCHANGED <<inputVars, imgVars, textVars, loopVars>>

Finish ==
    /\ pc = "finish"
    /\ LET lg == Append(log, Op("fs", "getsize"))
       IN  \/ \E exc \in GetsizeErrors : Fail(lg, exc)
           \/ /\ log' = Append(lg, SuccessRec(width, height))
              /\ exitCode' = 0
              /\ pc' = "exited"
    /\ UNCHANGED <<inputVars, imgVars, textVars, loopVars, outWrites>>

Next ==
    \/ main
    \/ Validate
    \/ Load
    \/ Sharpness
    \/ EdgeEnhance
    \/ Contrast
    \/ Smooth
    \/ Overlay
    \/ ShadowStep
    \/ MainText
    \/ Save
    \/ Finish

Spec == Init /\ [][Next]_vars

(***************************************************************************)
(* Vocabulary of the properties.                                           *)
(***************************************************************************)
IsStdout(r) == r.kind = "stdout"

IsStderr(r) == r.kind = "stderr"

IsCall(r) == r.kind \in {"fs", "filter"}

Stdout == SelectSeq(log, IsStdout)

Stderr == SelectSeq(log, IsStderr)

Exited == pc = "exited"

Logged(r) == \E i \in DOMAIN log : log[i] = r

\* what a parent process reads from one line: status and message
Line(r) == <<r.status, r.message>>

StdoutLines == [i \in DOMAIN Stdout |-> Line(Stdout[i])]

SuccessLines ==
    << <<"loading", "Loading image...">>,
       <<"info", "Image loaded: WxH pixels">>,
       <<"processing", "Applying filters...">>,
       <<"processing", "Adding text overlay...">>,
       <<"saving", "Saving processed image...">>,
       <<"success", "Image processed successfully">> >>

IsProperPrefix(s, t) == Len(s) < Len(t) /\ s = SubSeq(t, 1, Len(s))

\* position of the record r in the log, 0 when absent
Pos(r) == IF Logged(r) THEN CHOOSE i \in DOMAIN log : log[i] = r ELSE 0

Occurrences(r) == Cardinality({i \in DOMAIN log : log[i] = r})

\* C1: with two arguments and an input path that does not exist, nothing is
\* ever printed on standard output and the output path is never written, and
\* the run ends with exit code 1 and the single standard-error record
\* error / FileNotFoundError.
C1_MissingInput ==
    (argc = 2 /\ pathKind = "absent") =>
        /\ Stdout = <<>>
        /\ outWrites = 0
        /\ ~Logged(Op("fs", "save"))
        /\ Exited => /\ exitCode = 1
                     /\ Len(Stderr) = 1
                     /\ Stderr[1].status = "error"
                     /\ Stderr[1].error_type = "FileNotFoundError"

C1_Witness ==
    /\ Exited
    /\ argc = 2
    /\ pathKind = "absent"
    /\ Logged(Op("fs", "exists"))
    /\ Len(Stderr) = 1

\* C2: with an argument count other than 2 process_image is never entered
\* (no existence check, no load, no write, no standard-output record) and
\* the run ends with exit code 1 and the single record InvalidArguments.
C2_InvalidArguments ==
    (argc # 2) =>
        /\ pc \in {"main", "exited"}
        /\ outWrites = 0
        /\ \A i \in DOMAIN log : log[i].kind = "stderr"
        /\ Exited => /\ exitCode = 1
                     /\ log = <<ErrorRec("InvalidArguments")>>

C2_Witness ==
    /\ Exited
    /\ argc > 2
    /\ Len(Stderr) = 1

\* C3: when the input path exists and there are two arguments, every failed
\* run ends with exit code 2; exit code 1 is produced only for a missing
\* input or an invalid argument count.
C3_LaterFailureExitsTwo ==
    /\ (Exited /\ argc = 2 /\ pathKind # "absent" /\ exitCode # 0) => exitCode = 2
    /\ (Exited /\ exitCode = 1) => (argc # 2 \/ pathKind = "absent")

\* C4: a run that ends with exit code 0 has printed loading, info (with the
\* decoded size), processing, processing, saving, success in this order,
\* each once, ran the four filters between the two processing records,
\* wrote the output between saving and success, and printed nothing on
\* standard error.
C4_SuccessSequence ==
    (Exited /\ exitCode = 0) =>
        /\ StdoutLines = SuccessLines
        /\ Stdout[2].w = width /\ Stdout[2].h = height
        /\ Stderr = <<>>
        /\ \A name \in {"Sharpness 1.5", "EDGE_ENHANCE", "Contrast 1.2", "SMOOTH"} :
              /\ Occurrences(Op("filter", name)) = 1
              /\ Pos(FiltersRec) < Pos(Op("filter", name))
              /\ Pos(Op("filter", name)) < Pos(OverlayRec)
        /\ Pos(Op("filter", "Sharpness 1.5")) < Pos(Op("filter", "EDGE_ENHANCE"))
        /\ Pos(Op("filter", "EDGE_ENHANCE")) < Pos(Op("filter", "Contrast 1.2"))
        /\ Pos(Op("filter", "Contrast 1.2")) < Pos(Op("filter", "SMOOTH"))
        /\ Occurrences(Op("fs", "save")) = 1
        /\ Pos(SavingRec) < Pos(Op("fs", "save"))
        /\ Pos(Op("fs", "save")) < Pos(SuccessRec(width, height))
        /\ outWrites = 1

C4_Witness ==
    /\ Exited
    /\ exitCode = 0
    /\ Len(Stdout) = 6

\* C5: a run in which a stage fails prints exactly one error record, as the
\* last thing it does, ends there with a non-zero exit code, calls nothing
\* twice, and its standard output is a proper prefix of the success
\* sequence.
C5_FailureAborts ==
    (Stderr # <<>> \/ (Exited /\ exitCode # 0)) =>
        /\ Exited
        /\ exitCode # 0
        /\ Len(Stderr) = 1
        /\ log[Len(log)].kind = "stderr"
        /\ IsProperPrefix(StdoutLines, SuccessLines)
        /\ \A i, j \in DOMAIN log : (IsCall(log[i]) /\ log[i] = log[j]) => i = j

C5_Witness ==
    /\ Exited
    /\ exitCode = 2
    /\ Len(Stdout) = 5
    /\ Len(Stderr) = 1

\* round(h * 0.05): h/20 to the nearest integer, ties to the even one
Round20(h) ==
    LET q == h \div 20
        r == h % 20
    IN  IF r < 10 THEN q
        ELSE IF r > 10 THEN q + 1
        ELSE IF q % 2 = 0 THEN q ELSE q + 1

FontChosen == font # "none"

\* C6 as stated: the font size is round(H * 0.05) and the shadow radius is
\* max(2, font_size // 30).
C6_FontSizeRounded ==
    FontChosen =>
        /\ font_size = Round20(height)
        /\ shadow_offset = Max(2, font_size \div 30)

\* C6 amended: the font size is H * 0.05 truncated to an integer, the
\* largest integer not above H/20, and the shadow radius is
\* max(2, font_size // 30).
C6_FontSizeTruncated ==
    FontChosen =>
        /\ font_size * 20 <= height
        /\ height < (font_size + 1) * 20
        /\ shadow_offset >= 2
        /\ shadow_offset * 30 >= font_size - 29
        /\ shadow_offset = 2 \/ shadow_offset * 30 <= font_size

C6_Witness ==
    /\ FontChosen
    /\ height % 20 > 10
    /\ shadow_offset > 2

\* C7: the size printed in the info record stays the size held in width and
\* height through every later stage, and the success record reports it.
C7_DimensionsPreserved ==
    /\ \A i \in DOMAIN log :
          log[i].status = "info" => (log[i].w = width /\ log[i].h = height)
    /\ (Exited /\ exitCode = 0) =>
          \E i, j \in DOMAIN log :
              /\ i < j
              /\ log[i].status = "info"
              /\ log[j].status = "success"
              /\ log[j].w = log[i].w
              /\ log[j].h = log[i].h

C7_Witness ==
    /\ Exited
    /\ exitCode = 0
    /\ width # height
    /\ Logged(InfoRec(width, height))

\* the main text has been drawn
MainDrawn == pc \in {"save", "finish"} \/ (Exited /\ Logged(SavingRec))

Ring(s) == { d \in (0 - s .. s) \X (0 - s .. s) : d # <<0, 0>> }

\* C8: once the main text is drawn, the draws are one black draw at every
\* offset of the ring of radius s >= 2 around (x, y), none at (x, y), then
\* one draw in (200, 230, 255) at (x, y), where x and y are the floor of
\* half the difference of image and text extent.
C8_ShadowThenMain ==
    MainDrawn =>
        LET s == shadow_offset
            n == Len(draws)
        IN  /\ s >= 2
            /\ n = (2 * s + 1) * (2 * s + 1)
            /\ \A d \in Ring(s) :
                  Cardinality({i \in 1..(n - 1) :
                      draws[i] = [x |-> x + d[1], y |-> y + d[2], fill |-> <<0, 0, 0, 255>>]}) = 1
            /\ \A i \in 1..(n - 1) :
                  /\ draws[i].fill = <<0, 0, 0, 255>>
                  /\ ~(draws[i].x = x /\ draws[i].y = y)
            /\ draws[n] = [x |-> x, y |-> y, fill |-> <<200, 230, 255, 255>>]
            /\ 2 * x <= width - text_width /\ width - text_width <= 2 * x + 1
            /\ 2 * y <= height - text_height /\ height - text_height <= 2 * y + 1

C8_Witness ==
    /\ MainDrawn
    /\ shadow_offset > 2
    /\ text_width > width
    /\ (text_width - width) % 2 = 1

\* C9 as stated: the loading record is printed only for an input path that
\* is an existing file.
C9_OnlyFilesPass ==
    Logged(LoadingRec) => pathKind = "file"

\* C9 amended: the loading record is printed only for an input path that
\* exists; a path that exists but is not a file, such as a directory,
\* passes validation too: loading is printed, the decode is attempted and
\* fails there with exit code 2.
C9_ExistingPathsPass ==
    /\ Logged(LoadingRec) => pathKind # "absent"
    /\ (Exited /\ argc = 2 /\ pathKind = "dir") =>
          /\ Logged(LoadingRec)
          /\ Logged(Op("fs", "open"))
          /\ exitCode = 2

C9_Witness ==
    /\ Exited
    /\ pathKind = "dir"
    /\ Logged(LoadingRec)
    /\ exitCode = 2

InputErrors == {"FileNotFoundError", "InvalidArguments"}

\* C10: a terminated run has exit code 0 exactly when its last record is
\* success and standard error is empty, 1 exactly when its only error
\* record is FileNotFoundError or InvalidArguments, 2 exactly when its only
\* error record has another type; it has a success or an error record,
\* never both.
C10_ExitCodeMatchesRecord ==
    Exited =>
        LET succeeded == Logged(SuccessRec(width, height))
            failed == Stderr # <<>>
        IN  /\ exitCode \in {0, 1, 2}
            /\ log # <<>>
            /\ exitCode = 0 <=> (log[Len(log)].status = "success" /\ ~failed)
            /\ exitCode = 1 <=> (Len(Stderr) = 1 /\ Stderr[1].error_type \in InputErrors)
            /\ exitCode = 2 <=> (Len(Stderr) = 1 /\ Stderr[1].error_type \notin InputErrors)
            /\ ~(succeeded /\ failed)
            /\ succeeded \/ failed

C10_Witness ==
    /\ Exited
    /\ exitCode = 1
    /\ pathKind = "file"
    /\ Stderr[1].error_type = "FileNotFoundError"
====
